---- MODULE Spec2Model ----
(***************************************************************************)
(* A model of the IPTV browser of src/console-test.py: the M3U parser      *)
(* (IPTVBrowser._parse_playlist), the fetcher (fetch_playlist), the fuzzy  *)
(* search (search_channels), the grouping (group_channels) and the         *)
(* interactive shell (main, main_menu, browse_channels, browse_groups,     *)
(* search_menu).                                                           *)
(*                                                                         *)
(* Text is modelled as a sequence of one-character strings; the fixed      *)
(* tokens the code tests for ("#EXTINF:", "#EXTM3U", "#") are single       *)
(* elements.  A playlist is a sequence of lines (the text split at "\n").  *)
(***************************************************************************)
EXTENDS Integers, Sequences, FiniteSets, TLC

VARIABLES
    content,       \* the text handed to _parse_playlist last
    channels,      \* IPTVBrowser.channels
    playlist_url,  \* IPTVBrowser.playlist_url
    stack,         \* the call stack of the shell, main() first; <<>> when
                   \* the shell is not running
    event,         \* the latest step: the method called or the prompt
                   \* answered (op, at), its input (arg), how it ended
                   \* (result: "return" or the exception raised) and what it
                   \* returned or received (value)
    played         \* the URLs handed to the media player, latest last

vars == <<content, channels, playlist_url, stack, event, played>>

---------------------------------------------------------------------------
(* Bounds of the model. *)

\* lines of a playlist text handed to the parser
MaxLines == 5
\* characters of a channel name or of a search query
MaxNameLen == 2
\* channels of a playlist in the search specification
MaxSearchChannels == 1
\* channels of a playlist in the grouping specification
MaxGroupChannels == 3
\* channels of a playlist the shell or the browser fetches
MaxShellChannels == 2
\* URLs remembered of those handed to the media player
MaxPlayed == 1

---------------------------------------------------------------------------
(* Text. *)

\* the characters of a channel name: whitespace, a lowercase and an
\* uppercase letter
Chars == {" ", "a", "B"}

\* the characters of a query: those, and what str.lower() makes of them
QueryChars == {" ", "a", "b", "B"}

SeqsUpTo(S, n) == UNION {[1..k -> S] : k \in 0..n}

\* str.lower()
LowerChar(c) == IF c = "B" THEN "b" ELSE IF c = "Q" THEN "q" ELSE c
Lower(s) == [i \in 1..Len(s) |-> LowerChar(s[i])]

IsSpace(c) == c = " "

\* str.strip(): whitespace removed at both ends
RECURSIVE LStrip(_)
LStrip(s) == IF s # <<>> /\ IsSpace(s[1]) THEN LStrip(Tail(s)) ELSE s
RECURSIVE RStrip(_)
RStrip(s) ==
    IF s # <<>> /\ IsSpace(s[Len(s)]) THEN RStrip(SubSeq(s, 1, Len(s) - 1)) ELSE s
Strip(s) == RStrip(LStrip(s))

\* the tokens that begin with the character '#'
HashTokens == {"#", "#EXTINF:", "#EXTM3U"}
\* str.startswith('#'), str.startswith('#EXTINF:'), str.startswith('#EXTM3U')
StartsWithHash(s) == s # <<>> /\ s[1] \in HashTokens
StartsWithExtinf(s) == s # <<>> /\ s[1] = "#EXTINF:"
StartsWithExtm3u(s) == s # <<>> /\ s[1] = "#EXTM3U"

---------------------------------------------------------------------------
(* Lines.  A line is its text plus, for an #EXTINF line, what the          *)
(* attribute patterns find in the remainder of the line: a match is <<v>>, *)
(* no match is <<>>; tail is the text after the last comma.                *)

Line(text, tvg_name, group_title, tail) ==
    [text |-> text, tvg_name |-> tvg_name, group_title |-> group_title,
     tail |-> tail]

PlainLine(text) == Line(text, <<>>, <<>>, <<>>)
ExtinfLine(pad, tvg_name, group_title, tail) ==
    Line(pad \o <<"#EXTINF:">>, tvg_name, group_title, tail)

BlankLine == PlainLine(<<" ">>)
HeaderLine == PlainLine(<<"#EXTM3U">>)
CommentLine == PlainLine(<<"#", "a">>)

Ungrouped == <<"Ungrouped">>

\* re.search(...) on the stripped line: the attributes survive strip()
StripLine(l) == [l EXCEPT !.text = Strip(l.text)]

IPTVChannel(name, group, url) == [name |-> name, group |-> group, url |-> url]

---------------------------------------------------------------------------
(* IPTVBrowser._parse_playlist *)

\* lines 155-172: the channel built from the pending #EXTINF line and a URL
BuildChannel(extinf_line, line) ==
    IPTVChannel(
        IF extinf_line.tvg_name # <<>> THEN extinf_line.tvg_name[1]
                                       ELSE Strip(extinf_line.tail),
        IF extinf_line.group_title # <<>> THEN extinf_line.group_title[1]
                                          ELSE Ungrouped,
        line.text)

\* a faulty variant: the line is tested as read, without strip()
ParseLine_NoStrip(st, raw) ==
    LET line == raw IN
    IF line.text = <<>> THEN st
    ELSE IF StartsWithExtinf(line.text) THEN [st EXCEPT !.extinf_line = <<line>>]
    ELSE IF st.extinf_line # <<>> /\ ~StartsWithHash(line.text)
         THEN [chans |-> Append(st.chans, BuildChannel(st.extinf_line[1], line)),
               extinf_line |-> <<>>]
    ELSE st

\* a faulty variant: a comment line clears the pending #EXTINF line
ParseLine_CommentClears(st, raw) ==
    LET line == StripLine(raw) IN
    IF line.text = <<>> THEN st
    ELSE IF StartsWithExtinf(line.text) THEN [st EXCEPT !.extinf_line = <<line>>]
    ELSE IF st.extinf_line # <<>> /\ ~StartsWithHash(line.text)
         THEN [chans |-> Append(st.chans, BuildChannel(st.extinf_line[1], line)),
               extinf_line |-> <<>>]
    ELSE [st EXCEPT !.extinf_line = <<>>]

\* lines 146-176: one iteration of the loop over the lines
ParseLine(st, raw) ==
    LET line == StripLine(raw) IN
    IF line.text = <<>> THEN st
    ELSE IF StartsWithExtinf(line.text) THEN [st EXCEPT !.extinf_line = <<line>>]
    ELSE IF st.extinf_line # <<>> /\ ~StartsWithHash(line.text)
         THEN [chans |-> Append(st.chans, BuildChannel(st.extinf_line[1], line)),
               extinf_line |-> <<>>]
    ELSE st

RECURSIVE ParseLines(_, _)
ParseLines(st, lines) ==
    IF lines = <<>> THEN st ELSE ParseLines(ParseLine(st, Head(lines)), Tail(lines))

\* lines 138-176: channels reset, first line skipped, the rest scanned
ParsePlaylist(text) ==
    ParseLines([chans |-> <<>>, extinf_line |-> <<>>],
               IF text = <<>> THEN <<>> ELSE Tail(text)).chans

---------------------------------------------------------------------------
(* fuzz.partial_ratio, as search_channels calls it (fuzzywuzzy over        *)
(* difflib.SequenceMatcher).                                               *)

Min(x, y) == IF x <= y THEN x ELSE y
Max(x, y) == IF x >= y THEN x ELSE y

\* the blocks a[i..i+k-1] = b[j..j+k-1] with i in alo..ahi and j in blo..bhi
CommonBlocks(a, alo, ahi, b, blo, bhi) ==
    {m \in (alo..ahi) \X (blo..bhi) \X (1..Min(ahi - alo + 1, bhi - blo + 1)) :
        /\ m[1] + m[3] - 1 <= ahi
        /\ m[2] + m[3] - 1 <= bhi
        /\ \A d \in 0..(m[3] - 1) : a[m[1] + d] = b[m[2] + d]}

\* SequenceMatcher.find_longest_match: the longest block, of those the one
\* that starts earliest in a, of those the one that starts earliest in b
LongestMatch(a, alo, ahi, b, blo, bhi) ==
    LET C == CommonBlocks(a, alo, ahi, b, blo, bhi) IN
    CHOOSE m \in C :
        \A o \in C :
            \/ o[3] < m[3]
            \/ o[3] = m[3] /\ o[1] > m[1]
            \/ o[3] = m[3] /\ o[1] = m[1] /\ o[2] >= m[2]

\* SequenceMatcher.get_matching_blocks: the longest match, then the same to
\* its left and to its right
RECURSIVE MatchingBlocks(_, _, _, _, _, _)
MatchingBlocks(a, alo, ahi, b, blo, bhi) ==
    IF CommonBlocks(a, alo, ahi, b, blo, bhi) = {} THEN {}
    ELSE LET m == LongestMatch(a, alo, ahi, b, blo, bhi) IN
         {m} \cup MatchingBlocks(a, alo, m[1] - 1, b, blo, m[2] - 1)
             \cup MatchingBlocks(a, m[1] + m[3], ahi, b, m[2] + m[3], bhi)

RECURSIVE SumSizes(_)
SumSizes(blocks) ==
    IF blocks = {} THEN 0
    ELSE LET m == CHOOSE x \in blocks : TRUE IN m[3] + SumSizes(blocks \ {m})

\* the blocks with the closing (len(a), len(b), 0) block
AllBlocks(a, b) ==
    MatchingBlocks(a, 1, Len(a), b, 1, Len(b)) \cup {<<Len(a) + 1, Len(b) + 1, 0>>}

\* int(round(100 * SequenceMatcher.ratio())); a ratio above .995 counts as
\* 100.  No model length makes 200 * M / T end in .5, where round() would
\* round to even.
Ratio100(a, b) ==
    LET M == SumSizes(MatchingBlocks(a, 1, Len(a), b, 1, Len(b)))
        T == Len(a) + Len(b)
    IN  IF T = 0 \/ 2 * M = T THEN 100 ELSE (400 * M + T) \div (2 * T)

\* the window of longer that a block aligns shorter with
Window(shorter, longer, m) ==
    LET long_start == Max(0, m[2] - m[1]) IN
    SubSeq(longer, long_start + 1, Min(Len(longer), long_start + Len(shorter)))

SetMax(S) == CHOOSE x \in S : \A y \in S : y <= x

\* fuzz.partial_ratio(s1, s2), with its guards: equal strings score 100, an
\* empty string scores 0
PartialRatio(s1, s2) ==
    IF s1 = s2 THEN 100
    ELSE IF s1 = <<>> \/ s2 = <<>> THEN 0
    ELSE LET shorter == IF Len(s1) <= Len(s2) THEN s1 ELSE s2
             longer == IF Len(s1) <= Len(s2) THEN s2 ELSE s1
         IN  SetMax({Ratio100(shorter, Window(shorter, longer, m)) :
                        m \in AllBlocks(shorter, longer)})

---------------------------------------------------------------------------
(* IPTVBrowser.search_channels *)

Threshold == 80

\* a faulty variant: the channel's name is compared as it is, not lowercased
SearchChannels_NameNotLowered(chans, query) ==
    LET q == Lower(Strip(query)) IN
    IF q = <<>> THEN <<>>
    ELSE SelectSeq(chans, LAMBDA c : PartialRatio(q, c.name) > Threshold)

\* lines 185-198
SearchChannels(chans, query) ==
    LET q == Lower(Strip(query)) IN
    IF q = <<>> THEN <<>>
    ELSE SelectSeq(chans, LAMBDA c : PartialRatio(q, Lower(c.name)) > Threshold)

---------------------------------------------------------------------------
(* IPTVBrowser.group_channels: the dict as a sequence of [key, members] in *)
(* insertion order, the order dict.keys() lists them in.                   *)

\* line 255: channel.group or "Ungrouped"
GroupKey(c) == IF c.group = <<>> THEN Ungrouped ELSE c.group

\* a faulty variant: a new group is put in front of the others
AddToGroups_NewestFirst(gs, c) ==
    IF \E k \in 1..Len(gs) : gs[k].key = GroupKey(c)
    THEN LET k == CHOOSE k \in 1..Len(gs) : gs[k].key = GroupKey(c)
         IN  [gs EXCEPT ![k].members = Append(@, c)]
    ELSE <<[key |-> GroupKey(c), members |-> <<c>>]>> \o gs

\* line 255: groups[key].append(channel)
AddToGroups(gs, c) ==
    IF \E k \in 1..Len(gs) : gs[k].key = GroupKey(c)
    THEN LET k == CHOOSE k \in 1..Len(gs) : gs[k].key = GroupKey(c)
         IN  [gs EXCEPT ![k].members = Append(@, c)]
    ELSE Append(gs, [key |-> GroupKey(c), members |-> <<c>>])

RECURSIVE GroupFold(_, _)
GroupFold(gs, chans) ==
    IF chans = <<>> THEN gs ELSE GroupFold(AddToGroups(gs, Head(chans)), Tail(chans))

\* lines 253-256
GroupChannels(chans) == GroupFold(<<>>, chans)

\* list(groups.keys())[idx], a Python index: a negative idx counts from the
\* end, an idx outside -len..len-1 raises IndexError (<<>> here)
GroupAt(gs, idx) ==
    IF 0 <= idx /\ idx < Len(gs) THEN <<gs[idx + 1]>>
    ELSE IF idx < 0 /\ -idx <= Len(gs) THEN <<gs[Len(gs) + idx + 1]>>
    ELSE <<>>

---------------------------------------------------------------------------
(* IPTVBrowser.validate_url, fetch_playlist, play_channel *)

\* a URL is what urlparse finds in it
Url(scheme, netloc) == [scheme |-> scheme, netloc |-> netloc]

\* lines 63-64: all([result.scheme, result.netloc])
ValidateUrl(url) == url.scheme # "" /\ url.netloc # ""

\* what requests.get and raise_for_status make of the request: a body, a
\* RequestException, or an interrupt while it waits
Response(status, body) == [status |-> status, body |-> body]

\* line 110: content.strip().startswith('#EXTM3U'); strip() removes the
\* leading blank lines and the leading whitespace of the first other line
HasHeader(text) ==
    \E i \in 1..Len(text) :
        /\ \A k \in 1..(i - 1) : Strip(text[k].text) = <<>>
        /\ StartsWithExtm3u(Strip(text[i].text))

Browser(chans, purl, text) == [channels |-> chans, playlist_url |-> purl, content |-> text]
Ended(b, result) ==
    [channels |-> b.channels, playlist_url |-> b.playlist_url, content |-> b.content,
     result |-> result]

\* a faulty variant: the text is parsed before the header is looked at
FetchPlaylist_ParsesBeforeCheck(b, url, resp) ==
    IF ~ValidateUrl(url) THEN Ended(b, "URLValidationError")
    ELSE LET b1 == [b EXCEPT !.playlist_url = <<url>>] IN
         IF resp.status # "ok" THEN Ended(b1, resp.status)
         ELSE LET b2 == [b1 EXCEPT !.channels = ParsePlaylist(resp.body),
                                   !.content = resp.body] IN
              IF ~HasHeader(resp.body) THEN Ended(b2, "PlaylistParsingError")
              ELSE Ended(b2, "return")

\* a faulty variant: the channels parsed are added to those held
FetchPlaylist_KeepsOldChannels(b, url, resp) ==
    IF ~ValidateUrl(url) THEN Ended(b, "URLValidationError")
    ELSE LET b1 == [b EXCEPT !.playlist_url = <<url>>] IN
         IF resp.status # "ok" THEN Ended(b1, resp.status)
         ELSE IF ~HasHeader(resp.body) THEN Ended(b1, "PlaylistParsingError")
         ELSE Ended([b1 EXCEPT !.channels = b.channels \o ParsePlaylist(resp.body),
                               !.content = resp.body], "return")

\* lines 101-124: the exceptions are logged and raised again
FetchPlaylist(b, url, resp) ==
    IF ~ValidateUrl(url) THEN Ended(b, "URLValidationError")
    ELSE LET b1 == [b EXCEPT !.playlist_url = <<url>>] IN
         IF resp.status # "ok" THEN Ended(b1, resp.status)
         ELSE IF ~HasHeader(resp.body) THEN Ended(b1, "PlaylistParsingError")
         ELSE Ended([b1 EXCEPT !.channels = ParsePlaylist(resp.body),
                               !.content = resp.body], "return")

\* what setup_vlc and subprocess.Popen find on the host
PlayerStates == {"spawned", "VLCNotFoundError", "OSError"}

\* the latest MaxPlayed of the URLs handed to the player
Remember(urls) ==
    IF Len(urls) <= MaxPlayed THEN urls
    ELSE SubSeq(urls, Len(urls) - MaxPlayed + 1, Len(urls))

\* lines 206-221: the player is started with the channel's URL, or the
\* exception is logged and raised again
PlayChannel(urls, channel, player) ==
    IF player = "spawned"
    THEN [played |-> Remember(Append(urls, channel.url)), result |-> "return"]
    ELSE [played |-> urls, result |-> player]

---------------------------------------------------------------------------
(* The shell: main, main_menu, browse_channels, browse_groups and          *)
(* search_menu.  A frame of the call stack is the function, the prompt it  *)
(* waits at (a caller waits at the prompt it called from) and the list it  *)
(* was given or computed.                                                  *)

Frame(fn, at, list) == [fn |-> fn, at |-> at, list |-> list]
Top(s) == s[Len(s)]
Pop(s) == SubSeq(s, 1, Len(s) - 1)
SetAt(s, at) == [s EXCEPT ![Len(s)].at = at]

\* what is typed at a prompt: a numeral or another text
Num(n) == [num |-> TRUE, n |-> n, text |-> <<>>]
Txt(text) == [num |-> FALSE, n |-> 0, text |-> text]

\* Prompt.ask(..., default="b"): an empty input is the default
AskDefault(input, default) ==
    IF ~input.num /\ input.text = <<>> THEN Txt(default) ELSE input

IsBack(input) == ~input.num /\ Lower(input.text) = <<"b">>

ConfirmPrompts == {"quit_confirm", "exit_confirm"}
PressEnterPrompts == {"press_enter_vlc", "press_enter_err"}

\* lines 287 and 402: the answer "n" goes round the loop to the prompt
ConfirmNo(s) == SetAt(s, IF Top(s).fn = "main" THEN "url" ELSE "choice")

\* a faulty variant: browse_groups ends on an interrupt as browse_channels does
RECURSIVE InterruptAt_GroupsBreak(_)
InterruptAt_GroupsBreak(s) ==
    IF s = <<>> THEN <<>>
    ELSE LET f == Top(s) IN
         IF f.fn = "main" THEN IF f.at = "url" THEN SetAt(s, "quit_confirm") ELSE <<>>
         ELSE IF f.fn = "main_menu"
              THEN IF f.at = "choice" THEN SetAt(s, "exit_confirm")
                   ELSE InterruptAt_GroupsBreak(Pop(s))
         ELSE IF f.fn = "browse_channels"
              THEN IF f.at = "choice" THEN Pop(s) ELSE InterruptAt_GroupsBreak(Pop(s))
         ELSE IF f.fn = "search_menu" THEN Pop(s)
         ELSE Pop(s)

\* KeyboardInterrupt raised in the top frame where it waits.  main (401)
\* and main_menu (286) ask for confirmation, browse_channels (314) and
\* search_menu (367) break, browse_groups has no handler for it (345
\* catches Exception only); raised inside a handler (the confirmations,
\* the "Press Enter" of 318 and 322) it goes to the caller, which is
\* inside its own try.  <<>>: nothing caught it, the process ends.
RECURSIVE InterruptAt(_)
InterruptAt(s) ==
    IF s = <<>> THEN <<>>
    ELSE LET f == Top(s) IN
         IF f.fn = "main" THEN IF f.at = "url" THEN SetAt(s, "quit_confirm") ELSE <<>>
         ELSE IF f.fn = "main_menu"
              THEN IF f.at = "choice" THEN SetAt(s, "exit_confirm")
                   ELSE InterruptAt(Pop(s))
         ELSE IF f.fn = "browse_channels"
              THEN IF f.at = "choice" THEN Pop(s) ELSE InterruptAt(Pop(s))
         ELSE IF f.fn = "search_menu" THEN Pop(s)
         ELSE InterruptAt(Pop(s))

Step(s, urls, result) == [stack |-> s, played |-> urls, result |-> result]

\* lines 386-406: after fetch_playlist returned or raised
MainAfterFetch(s, r) ==
    IF r.result = "return"
    THEN IF r.channels # <<>> THEN Append(s, Frame("main_menu", "choice", <<>>)) ELSE s
    ELSE IF r.result = "KeyboardInterrupt" THEN InterruptAt(s)
    ELSE s

\* lines 277-284: "4" ends main_menu and with it main (391)
MainMenuStep(s, chans, choice) ==
    IF choice = "1" THEN Append(s, Frame("browse_channels", "choice", chans))
    ELSE IF choice = "2"
         THEN Append(s, Frame("browse_groups", "choice", GroupChannels(chans)))
    ELSE IF choice = "3" THEN Append(s, Frame("search_menu", "query", <<>>))
    ELSE <<>>

\* a faulty variant: an error of the player ends the channel list
BrowseChannelsStep_ErrorLeaves(s, urls, typed, player) ==
    LET input == AskDefault(typed, <<"b">>)
        list == Top(s).list
    IN  IF IsBack(input) THEN Step(Pop(s), urls, "back")
        ELSE IF ~input.num THEN Step(s, urls, "invalid")
        ELSE IF 0 <= input.n - 1 /\ input.n - 1 < Len(list)
             THEN LET r == PlayChannel(urls, list[input.n], player) IN
                  Step(IF r.result = "return" THEN s ELSE Pop(s), r.played, r.result)
        ELSE Step(s, urls, "invalid")

\* lines 300-322
BrowseChannelsStep(s, urls, typed, player) ==
    LET input == AskDefault(typed, <<"b">>)
        list == Top(s).list
    IN  IF IsBack(input) THEN Step(Pop(s), urls, "back")
        ELSE IF ~input.num THEN Step(s, urls, "invalid")
        ELSE IF 0 <= input.n - 1 /\ input.n - 1 < Len(list)
             THEN LET r == PlayChannel(urls, list[input.n], player) IN
                  Step(IF r.result = "return" THEN s
                       ELSE IF r.result = "VLCNotFoundError"
                            THEN SetAt(s, "press_enter_vlc")
                       ELSE SetAt(s, "press_enter_err"),
                       r.played, r.result)
        ELSE Step(s, urls, "invalid")

\* lines 333-343
BrowseGroupsStep(s, urls, typed) ==
    LET input == AskDefault(typed, <<"b">>)
        group == IF input.num THEN GroupAt(Top(s).list, input.n - 1) ELSE <<>>
    IN  IF IsBack(input) THEN Step(Pop(s), urls, "back")
        ELSE IF group # <<>>
             THEN Step(Append(s, Frame("browse_channels", "choice", group[1].members)),
                       urls, "selected")
        ELSE Step(s, urls, "invalid")

\* lines 355-365
SearchMenuStep(s, chans, query) ==
    IF Lower(query) = <<"b">> THEN Pop(s)
    ELSE LET found == SearchChannels(chans, query) IN
         IF found # <<>> THEN Append(s, Frame("browse_channels", "choice", found))
         ELSE SetAt(s, "press_enter")

---------------------------------------------------------------------------
(* The parser on its own: every text of at most MaxLines lines.            *)

UrlLineU == PlainLine(<<"u">>)
UrlLineV == PlainLine(<<" ", "v", " ">>)
ExtinfLineA == ExtinfLine(<<>>, <<<<"a">>>>, <<<<"B">>>>, <<"a">>)
ExtinfLineB == ExtinfLine(<<" ">>, <<>>, <<>>, <<" ", "B">>)

ParseLineSet ==
    {BlankLine, HeaderLine, CommentLine, ExtinfLineA, ExtinfLineB, UrlLineU, UrlLineV}

ParseTexts == SeqsUpTo(ParseLineSet, MaxLines)

Event(op, at, arg, result, value) ==
    [op |-> op, at |-> at, arg |-> arg, result |-> result, value |-> value]
NoEvent == Event("none", "none", <<>>, "none", <<>>)
\* a method called on the browser object
Call(op, arg, result, value) == Event(op, "call", arg, result, value)

InitCommon ==
    /\ channels = <<>>
    /\ playlist_url = <<>>
    /\ stack = <<>>
    /\ event = NoEvent
    /\ played = <<>>

InitParse == content \in ParseTexts /\ InitCommon

\* _parse_playlist(content)
Parse ==
    /\ event.op = "none"
    /\ channels' = ParsePlaylist(content)
    /\ event' = Call("_parse_playlist", <<>>, "return", <<>>)
    /\ UNCHANGED <<content, playlist_url, stack, played>>

NextParse == Parse

SpecParse == InitParse /\ [][NextParse]_vars

(* What the text says, stated on the lines rather than by the scan. *)

IsBlankAt(t, i) == Strip(t[i].text) = <<>>
IsExtinfAt(t, i) == StartsWithExtinf(Strip(t[i].text))
IsUrlAt(t, i) == ~IsBlankAt(t, i) /\ ~StartsWithHash(Strip(t[i].text))

\* the header line followed by N (#EXTINF line, URL line) pairs
WellFormedPairs(t) ==
    /\ Len(t) % 2 = 1
    /\ StartsWithExtm3u(Strip(t[1].text))
    /\ \A k \in 1..(Len(t) \div 2) : IsExtinfAt(t, 2 * k) /\ IsUrlAt(t, 2 * k + 1)

\* C1: a text made of the header line and N well-formed pairs parses to
\* exactly N channels, the i-th carrying the URL of the i-th pair.
C1_PairsYieldChannelsInOrder ==
    (event.op = "_parse_playlist" /\ WellFormedPairs(content)) =>
        /\ Len(channels) = Len(content) \div 2
        /\ \A k \in 1..Len(channels) : channels[k].url = Strip(content[2 * k + 1].text)

\* two pairs with the same metadata and the same URL: both are kept
C1_Witness ==
    /\ event.op = "_parse_playlist"
    /\ WellFormedPairs(content)
    /\ Len(content) = 5
    /\ Len(channels) = 2
    /\ channels[1] = channels[2]

\* the URL lines that follow an #EXTINF line with no URL line in between
EmitLines(t) ==
    {j \in 2..Len(t) :
        /\ IsUrlAt(t, j)
        /\ \E i \in 2..(j - 1) :
              IsExtinfAt(t, i) /\ \A k \in (i + 1)..(j - 1) : ~IsUrlAt(t, k)}

\* the most recent #EXTINF line before line j
MetaLine(t, j) ==
    CHOOSE i \in 2..(j - 1) :
        IsExtinfAt(t, i) /\ \A k \in (i + 1)..(j - 1) : ~IsExtinfAt(t, k)

\* the n-th line of EmitLines, in source order
NthEmit(t, n) ==
    CHOOSE j \in EmitLines(t) : Cardinality({e \in EmitLines(t) : e <= j}) = n

\* C2: the channels are exactly the URL lines that follow an #EXTINF line
\* with no other URL line in between, each with the metadata of the most
\* recent #EXTINF line; blank and comment lines in between change nothing,
\* an #EXTINF line without such a URL line and a URL line without a
\* pending #EXTINF line yield no channel.
C2_UrlFollowsPendingExtinf ==
    event.op = "_parse_playlist" =>
        /\ Len(channels) = Cardinality(EmitLines(content))
        /\ \A n \in 1..Len(channels) :
              LET j == NthEmit(content, n) IN
              /\ channels[n].url = Strip(content[j].text)
              /\ channels[n] = BuildChannel(StripLine(content[MetaLine(content, j)]),
                                           StripLine(content[j]))

\* #EXTINF, blank, comment, URL: one channel; the text also holds lines
\* that yield nothing
C2_Witness ==
    /\ event.op = "_parse_playlist"
    /\ Len(channels) = 1
    /\ \E j \in EmitLines(content) :
          /\ j - MetaLine(content, j) = 3
          /\ \E k \in (MetaLine(content, j) + 1)..(j - 1) : IsBlankAt(content, k)
          /\ \E k \in (MetaLine(content, j) + 1)..(j - 1) :
                StartsWithHash(Strip(content[k].text))

---------------------------------------------------------------------------
(* Search on its own: the header and up to MaxSearchChannels pairs whose   *)
(* names are every string of up to MaxNameLen characters, given as         *)
(* tvg-name or as the text after the last comma; every query.              *)

\* header line, then an #EXTINF line and a URL line per entry
RECURSIVE PairLines(_)
PairLines(entries) ==
    IF entries = <<>> THEN <<>>
    ELSE <<Head(entries).extinf, Head(entries).url>> \o PairLines(Tail(entries))
PlaylistOf(entries) == <<HeaderLine>> \o PairLines(entries)

Names == SeqsUpTo(Chars, MaxNameLen)
Queries == SeqsUpTo(QueryChars, MaxNameLen)

SearchEntries ==
    {[extinf |-> ExtinfLine(<<>>, <<n>>, <<>>, <<"a">>), url |-> UrlLineU] : n \in Names}
    \cup {[extinf |-> ExtinfLine(<<>>, <<>>, <<>>, t), url |-> UrlLineV] :
            t \in {<<>>, <<" ", "B", " ">>}}

SearchTexts == {PlaylistOf(es) : es \in SeqsUpTo(SearchEntries, MaxSearchChannels)}

InitSearch == content \in SearchTexts /\ InitCommon

\* search_channels(query)
Search(query) ==
    /\ event' = Call("search_channels", query, "return", SearchChannels(channels, query))
    /\ UNCHANGED <<content, channels, playlist_url, stack, played>>

\* search_channels changes nothing it reads: a second call reaches no state
\* the first does not
NextSearch ==
    \/ Parse
    \/ \E query \in Queries : event.op = "_parse_playlist" /\ Search(query)

SpecSearch == InitSearch /\ [][NextSearch]_vars

Range(f) == {f[i] : i \in DOMAIN f}

\* C5 as claimed: a query equal to the lowercased name of a channel finds
\* that channel, whatever the name.
C5_ExactNameFound ==
    event.op = "search_channels" =>
        \A i \in 1..Len(channels) :
            event.arg = Lower(channels[i].name) => channels[i] \in Range(event.value)

\* C5 as amended: a query equal to the lowercased name of a channel finds
\* that channel, provided the name holds a character that is not whitespace.
C5_ExactNonBlankNameFound ==
    event.op = "search_channels" =>
        \A i \in 1..Len(channels) :
            (event.arg = Lower(channels[i].name) /\ Strip(channels[i].name) # <<>>)
                => channels[i] \in Range(event.value)

\* the name " B" is searched as " b" and found
C5_Witness ==
    /\ event.op = "search_channels"
    /\ \E i \in 1..Len(channels) :
          /\ channels[i].name = <<" ", "B">>
          /\ event.arg = Lower(channels[i].name)
          /\ channels[i] \in Range(event.value)

---------------------------------------------------------------------------
(* Grouping on its own: the header and up to MaxGroupChannels pairs, each  *)
(* with no group-title, an empty one or one of two others.                 *)

GroupTitles == {<<>>, <<<<>>>>, <<<<"a">>>>, <<<<"B">>>>}

GroupEntries ==
    {[extinf |-> ExtinfLine(<<>>, <<>>, g, <<"a">>), url |-> u] :
        g \in GroupTitles, u \in {UrlLineU, UrlLineV}}

GroupTexts == {PlaylistOf(es) : es \in SeqsUpTo(GroupEntries, MaxGroupChannels)}

InitGroup == content \in GroupTexts /\ InitCommon

\* group_channels()
Group ==
    /\ event' = Call("group_channels", <<>>, "return", GroupChannels(channels))
    /\ UNCHANGED <<content, channels, playlist_url, stack, played>>

NextGroup ==
    \/ Parse
    \/ event.op = "_parse_playlist" /\ Group

SpecGroup == InitGroup /\ [][NextGroup]_vars

C10_KeyOf(c) == IF c.group = <<>> THEN <<"Ungrouped">> ELSE c.group
C10_First(key) == CHOOSE i \in 1..Len(channels) :
    /\ C10_KeyOf(channels[i]) = key
    /\ \A j \in 1..(i - 1) : C10_KeyOf(channels[j]) # key

RECURSIVE C10_Sizes(_)
C10_Sizes(gs) == IF gs = <<>> THEN 0 ELSE Len(Head(gs).members) + C10_Sizes(Tail(gs))

\* C10: the groups partition the channels: every key once, under each key
\* the channels of that group value ("Ungrouped" for an empty one) in
\* source order, the sizes summing to the number of channels, the keys in
\* order of first appearance, and the number shown for a group (its
\* position) selecting that group.
C10_GroupsPartitionChannels ==
    event.op = "group_channels" =>
        /\ \A g, h \in 1..Len(event.value) : event.value[g].key = event.value[h].key => g = h
        /\ \A i \in 1..Len(channels) :
              \E g \in 1..Len(event.value) : event.value[g].key = C10_KeyOf(channels[i])
        /\ \A g \in 1..Len(event.value) :
              /\ event.value[g].members # <<>>
              /\ event.value[g].members =
                   SelectSeq(channels, LAMBDA c : C10_KeyOf(c) = event.value[g].key)
        /\ C10_Sizes(event.value) = Len(channels)
        /\ \A g, h \in 1..Len(event.value) :
              g < h => C10_First(event.value[g].key) < C10_First(event.value[h].key)
        /\ \A n \in 1..Len(event.value) : GroupAt(event.value, n - 1) = <<event.value[n]>>

\* three channels, the second of another group than the first and the
\* third; an absent and an empty group-title share "Ungrouped"
C10_Witness ==
    /\ event.op = "group_channels"
    /\ Len(channels) = 3
    /\ Len(event.value) = 2
    /\ event.value[1].key = <<"Ungrouped">>
    /\ channels[1].group = <<"Ungrouped">>
    /\ channels[3].group = <<>>
    /\ event.value[1].members = <<channels[1], channels[3]>>
    /\ event.value[2].members = <<channels[2]>>

---------------------------------------------------------------------------
(* The browser object: its methods called in any order.  The playlists     *)
(* served are the header with up to MaxShellChannels pairs, and texts that *)
(* are not such playlists.                                                 *)

ShellEntries ==
    {[extinf |-> ExtinfLine(<<>>, <<<<"a">>>>, <<>>, <<"a">>), url |-> UrlLineU],
     [extinf |-> ExtinfLine(<<>>, <<>>, <<<<"a">>>>, <<" ", "B">>), url |-> UrlLineV]}

Bodies ==
    {PlaylistOf(es) : es \in SeqsUpTo(ShellEntries, MaxShellChannels)}
    \cup {<<>>,
          <<UrlLineU>>,
          <<ExtinfLineA, UrlLineU>>,
          <<BlankLine, HeaderLine, ExtinfLineB, UrlLineV>>,
          <<CommentLine, HeaderLine, ExtinfLineA, UrlLineU>>}

Responses ==
    {Response("ok", body) : body \in Bodies}
    \cup {Response("RequestException", <<>>), Response("KeyboardInterrupt", <<>>)}

Urls == {Url("http", "h"), Url("http", ""), Url("", "")}

ShellQueries == {<<>>, <<" ">>, <<"a">>, <<" ", "b">>, <<"B", "a">>}

InitBrowser == content = <<>> /\ InitCommon

\* fetch_playlist(url)
Fetch(url, resp) ==
    LET r == FetchPlaylist(Browser(channels, playlist_url, content), url, resp) IN
    /\ channels' = r.channels
    /\ playlist_url' = r.playlist_url
    /\ content' = r.content
    /\ event' = Call("fetch_playlist", url, r.result, resp)
    /\ UNCHANGED <<stack, played>>

\* play_channel(channels[i])
Play(i, player) ==
    LET r == PlayChannel(played, channels[i], player) IN
    /\ played' = r.played
    /\ event' = Call("play_channel", channels[i], r.result, <<>>)
    /\ UNCHANGED <<content, channels, playlist_url, stack>>

NextBrowser ==
    \/ \E url \in Urls, resp \in Responses : Fetch(url, resp)
    \/ \E query \in ShellQueries : Search(query)
    \/ Group
    \/ \E i \in 1..Len(channels), player \in PlayerStates : Play(i, player)

SpecBrowser == InitBrowser /\ [][NextBrowser]_vars

FetchedBody == event'.op = "fetch_playlist" /\ ValidateUrl(event'.arg)
                  /\ event'.value.status = "ok"

\* C3: a fetch whose response does not start with #EXTM3U (whitespace
\* aside) fails with PlaylistParsingError and leaves the channels as they
\* were.
C3_NoHeaderFailsAndKeepsChannels ==
    [][(FetchedBody /\ ~HasHeader(event'.value.body)) =>
          (event'.result = "PlaylistParsingError" /\ channels' = channels)]_vars

\* a playlist is loaded, then a text without the header is fetched
C3_Witness ==
    /\ event.op = "fetch_playlist"
    /\ event.result = "PlaylistParsingError"
    /\ event.value.body = <<ExtinfLineA, UrlLineU>>
    /\ Len(channels) = 2
    /\ channels[1].url = <<"v">>

\* C4: a fetch that succeeds replaces the channels by the parse of its
\* body, nothing of the earlier list staying; a fetch that fails, a
\* search, a grouping and a playback leave the channels as they were.
C4_ChannelsAreLastSuccessfulParse ==
    [][IF event'.op = "fetch_playlist" /\ event'.result = "return"
       THEN /\ FetchedBody
            /\ HasHeader(event'.value.body)
            /\ channels' = ParsePlaylist(event'.value.body)
            /\ content' = event'.value.body
       ELSE /\ channels' = channels
            /\ content' = content
            /\ channels = ParsePlaylist(content)]_vars

\* two channels are held, from the latest playlist that was parsed, after
\* a later fetch met a network error
C4_Witness ==
    /\ event.op = "fetch_playlist"
    /\ event.result = "RequestException"
    /\ playlist_url = <<event.arg>>
    /\ Len(channels) = 2
    /\ channels = ParsePlaylist(content)

---------------------------------------------------------------------------
(* The shell run from main(), what is typed and what the network and the   *)
(* host answer being free.  Prompt.ask with choices takes no other answer, *)
(* so only the choices are typed there.                                    *)

InitShell ==
    /\ content = <<>>
    /\ channels = <<>>
    /\ playlist_url = <<>>
    /\ stack = <<Frame("main", "url", <<>>)>>
    /\ event = NoEvent
    /\ played = <<>>

At(fn, at) == stack # <<>> /\ Top(stack).fn = fn /\ Top(stack).at = at

ListInputs ==
    {Txt(<<>>), Txt(<<"b">>), Txt(<<"B">>), Txt(<<"a">>)}
    \cup {Num(n) : n \in (-2)..(MaxShellChannels + 1)}

\* line 382: 'q' at the URL prompt
MainQuit(text) ==
    /\ At("main", "url")
    /\ stack' = <<>>
    /\ event' = Event("main", "url", Txt(text), "exit", <<>>)
    /\ UNCHANGED <<content, channels, playlist_url, played>>

\* lines 381-406: a URL at the URL prompt
MainFetch(url, resp) ==
    LET r == FetchPlaylist(Browser(channels, playlist_url, content), url, resp) IN
    /\ At("main", "url")
    /\ channels' = r.channels
    /\ playlist_url' = r.playlist_url
    /\ content' = r.content
    /\ stack' = MainAfterFetch(stack, r)
    /\ event' = Event("main", "url", url, r.result, <<>>)
    /\ UNCHANGED played

\* Ctrl-C at the prompt the shell waits at
Interrupt ==
    /\ stack # <<>>
    /\ stack' = InterruptAt(stack)
    /\ event' = Event(Top(stack).fn, Top(stack).at, <<>>, "KeyboardInterrupt", <<>>)
    /\ UNCHANGED <<content, channels, playlist_url, played>>

\* lines 287-288 and 402-403: the answer to "Do you want to exit/quit?"
Confirm(answer) ==
    /\ stack # <<>>
    /\ Top(stack).at \in ConfirmPrompts
    /\ stack' = IF answer = "y" THEN <<>> ELSE ConfirmNo(stack)
    /\ event' = Event(Top(stack).fn, Top(stack).at, Txt(<<answer>>),
                      IF answer = "y" THEN "exit" ELSE "return", <<>>)
    /\ UNCHANGED <<content, channels, playlist_url, played>>

\* lines 275-284
MainMenu(choice) ==
    /\ At("main_menu", "choice")
    /\ stack' = MainMenuStep(stack, channels, choice)
    /\ event' = Event("main_menu", "choice", Txt(<<choice>>),
                      IF choice = "4" THEN "exit" ELSE "return", <<>>)
    /\ UNCHANGED <<content, channels, playlist_url, played>>

\* lines 300-322
BrowseChannels(typed, player) ==
    /\ At("browse_channels", "choice")
    /\ LET r == BrowseChannelsStep(stack, played, typed, player) IN
       /\ stack' = r.stack
       /\ played' = r.played
       /\ event' = Event("browse_channels", "choice", typed, r.result, <<>>)
    /\ UNCHANGED <<content, channels, playlist_url>>

\* lines 318 and 322: Enter after an error of the player
BrowseChannelsEnter ==
    /\ stack # <<>>
    /\ Top(stack).fn = "browse_channels"
    /\ Top(stack).at \in PressEnterPrompts
    /\ stack' = SetAt(stack, "choice")
    /\ event' = Event("browse_channels", Top(stack).at, Txt(<<>>), "return", <<>>)
    /\ UNCHANGED <<content, channels, playlist_url, played>>

\* lines 333-343
BrowseGroups(typed) ==
    /\ At("browse_groups", "choice")
    /\ LET r == BrowseGroupsStep(stack, played, typed) IN
       /\ stack' = r.stack
       /\ event' = Event("browse_groups", "choice", typed, r.result, <<>>)
    /\ UNCHANGED <<content, channels, playlist_url, played>>

\* lines 355-365
SearchMenu(query) ==
    /\ At("search_menu", "query")
    /\ stack' = SearchMenuStep(stack, channels, query)
    /\ event' = Event("search_menu", "query", Txt(query), "return", <<>>)
    /\ UNCHANGED <<content, channels, playlist_url, played>>

\* line 365: Enter after "No channels found"
SearchMenuEnter ==
    /\ At("search_menu", "press_enter")
    /\ stack' = SetAt(stack, "query")
    /\ event' = Event("search_menu", "press_enter", Txt(<<>>), "return", <<>>)
    /\ UNCHANGED <<content, channels, playlist_url, played>>

NextShell ==
    \/ \E text \in {<<"q">>, <<"Q">>} : MainQuit(text)
    \/ \E url \in Urls, resp \in Responses : MainFetch(url, resp)
    \/ Interrupt
    \/ \E answer \in {"y", "n"} : Confirm(answer)
    \/ \E choice \in {"1", "2", "3", "4"} : MainMenu(choice)
    \/ \E typed \in ListInputs, player \in PlayerStates : BrowseChannels(typed, player)
    \/ BrowseChannelsEnter
    \/ \E typed \in ListInputs : BrowseGroups(typed)
    \/ \E query \in ShellQueries \cup {<<"b">>, <<"B">>} : SearchMenu(query)
    \/ SearchMenuEnter

SpecShell == InitShell /\ [][NextShell]_vars

\* the prompt answered by the step, and how the step ended
Answered(fn, at) == event'.op = fn /\ event'.at = at
Interrupted == event'.result = "KeyboardInterrupt"

\* C6 as claimed: on the channel list and on the group list, an input that
\* is neither the back command nor a number of 1..len(list) is reported as
\* invalid and the same screen is shown again: nothing is played, no group
\* is entered, no screen is left.
C6_InvalidSelectionStays ==
    [][(/\ Answered("browse_channels", "choice") \/ Answered("browse_groups", "choice")
        /\ ~Interrupted
        /\ ~IsBack(AskDefault(event'.arg, <<"b">>))
        /\ ~(event'.arg.num /\ event'.arg.n \in 1..Len(Top(stack).list)))
       => (event'.result = "invalid" /\ stack' = stack /\ played' = played)]_vars

\* the prompts C7 names
ScreenPrompts ==
    {<<"main", "url">>, <<"main_menu", "choice">>, <<"browse_channels", "choice">>,
     <<"browse_groups", "choice">>, <<"search_menu", "query">>}

\* C7 as claimed: an interrupt at any of the prompts leads to an exit
\* confirmation, and the answer "n" to it resumes the screen the interrupt
\* occurred on.
C7_InterruptAsksThenResumes ==
    [][(Interrupted /\ <<event'.op, event'.at>> \in ScreenPrompts) =>
          /\ stack' # <<>>
          /\ Top(stack').at \in ConfirmPrompts
          /\ ConfirmNo(stack') = stack]_vars

\* C7 as amended: at the URL prompt and at the main menu an interrupt
\* leads to an exit confirmation and "n" resumes that screen; at a channel
\* list and at the search prompt it acts as the back command, with no
\* confirmation; at the group list it leads to the main menu's exit
\* confirmation, and "n" resumes the main menu.
C7_InterruptPerScreen ==
    [][(Interrupted /\ <<event'.op, event'.at>> \in ScreenPrompts) =>
          /\ stack' # <<>>
          /\ (Answered("main", "url") \/ Answered("main_menu", "choice")) =>
                (Top(stack').at \in ConfirmPrompts /\ ConfirmNo(stack') = stack)
          /\ (Answered("browse_channels", "choice") \/ Answered("search_menu", "query")) =>
                (stack' = Pop(stack) /\ Top(stack').at \notin ConfirmPrompts)
          /\ Answered("browse_groups", "choice") =>
                /\ Top(stack').fn = "main_menu"
                /\ Top(stack').at = "exit_confirm"
                /\ ConfirmNo(stack') = Pop(stack)]_vars

\* an interrupt at the group list has led to the main menu's confirmation
C7_Witness ==
    /\ event.result = "KeyboardInterrupt"
    /\ event.op = "browse_groups"
    /\ event.at = "choice"
    /\ Len(stack) = 2
    /\ Top(stack) = Frame("main_menu", "exit_confirm", <<>>)

\* the screen of the spec's state machine a stack stands for: main's own
\* prompts are AwaitingURL, main_menu's are MainMenu, below them the
\* function main_menu called names the screen
Screen(s) ==
    IF s = <<>> THEN "Exit"
    ELSE IF Len(s) = 1 THEN "AwaitingURL"
    ELSE IF Len(s) = 2 THEN "MainMenu"
    ELSE IF s[3].fn = "browse_channels" THEN "AllChannels"
    ELSE IF s[3].fn = "browse_groups" THEN "GroupBrowse"
    ELSE "SearchResults"

SubScreens == {"AllChannels", "GroupBrowse", "SearchResults"}

\* C8 as claimed: the shell starts in AwaitingURL; MainMenu is entered only
\* from AwaitingURL by a fetch that succeeded with at least one channel,
\* and any other fetch stays in AwaitingURL; the sub-screens are entered
\* only from MainMenu and left only to MainMenu; Exit is terminal; once
\* MainMenu was entered, AwaitingURL is not shown again.
C8_ScreenStateMachine ==
    /\ Screen(stack) = "AwaitingURL"
    /\ [][LET from == Screen(stack)
              to == Screen(stack')
          IN  /\ from = "Exit" => to = "Exit"
              /\ (from = "AwaitingURL" /\ Answered("main", "url") /\ event'.result # "exit")
                    => to = IF event'.result = "return" /\ channels' # <<>>
                            THEN "MainMenu" ELSE "AwaitingURL"
              /\ from = "AwaitingURL" => to \in {"AwaitingURL", "MainMenu", "Exit"}
              /\ from = "MainMenu" => to \in {"MainMenu", "Exit"} \cup SubScreens
              /\ from \in SubScreens => to \in {from, "MainMenu"}]_vars

FetchErrors == {"URLValidationError", "RequestException", "PlaylistParsingError"}
PlayErrors == {"VLCNotFoundError", "OSError"}

\* C9: an error of a fetch leaves the shell at the URL prompt; an error of
\* the player leaves it in the channel list it was raised from, at "Press
\* Enter", and Enter shows that list again; neither ends the program.
C9_ErrorsKeepTheShellAlive ==
    [][/\ event'.result \in FetchErrors =>
             (Answered("main", "url") /\ stack' = stack /\ At("main", "url"))
       /\ event'.result \in PlayErrors =>
             /\ Answered("browse_channels", "choice")
             /\ stack' # <<>>
             /\ Top(stack').at \in PressEnterPrompts
             /\ SetAt(stack', "choice") = stack
       /\ (event'.op = "browse_channels" /\ event'.at \in PressEnterPrompts
             /\ event'.result = "return") =>
             (stack' = SetAt(stack, "choice") /\ Top(stack').list = Top(stack).list)]_vars

\* the player failed to start from the channel list of a group
C9_Witness ==
    /\ event.result = "OSError"
    /\ Len(stack) = 4
    /\ stack[3].fn = "browse_groups"
    /\ Top(stack).fn = "browse_channels"
    /\ Top(stack).at = "press_enter_err"
    /\ Top(stack).list # <<>>

====
